---- MODULE Spec2Model ----
(***************************************************************************)
(* Model of medication_label.py: the label layout (draw_label), the page   *)
(* sequencer (generate_pdf) and the form handler that starts a print job   *)
(* (MedicationLabelApp.generate_labels).                                   *)
(*                                                                         *)
(* Text is a sequence of characters.  Each character is written as a short *)
(* ASCII token: kanji in upper case ("ASA" = U+671D, "SHOKU" = U+98DF,     *)
(* "GO" = U+5F8C, "MAE" = U+524D ...), hiragana in lower case ("a", "sa",  *)
(* ...), so that len(), strip(), replace() and split() act on characters   *)
(* exactly as the Python str methods do.                                   *)
(* Lengths are in units of 0.01 mm.  Dates are proleptic Gregorian         *)
(* ordinals (datetime.toordinal()).                                        *)
(***************************************************************************)
EXTENDS Integers, Sequences, FiniteSets, Bags, TLC

(***************************************************************************)
(* Bounds of the model                                                     *)
(***************************************************************************)
MaxDays == 2          \* largest day count given to generate_pdf in SpecPdf
MaxTimings == 2       \* longest timings sequence given to generate_pdf in SpecPdf
MaxCustomLen == 3     \* longest text typed into the custom-timing entry
MaxTextLen == 9       \* longest free-text timing drawn in SpecLabel

(***************************************************************************)
(* Settings (medication_label.py 26-36)                                    *)
(***************************************************************************)
mm == 100
LABEL_WIDTH == 29 * mm
LABEL_HEIGHT == 52 * mm

WEEKDAYS == <<"GETSU", "KA", "SUI", "MOKU", "KIN", "DO", "NICHI">>

ASA_GO == <<"ASA", "SHOKU", "GO">>
HIRU_GO == <<"HIRU", "SHOKU", "GO">>
YUU_GO == <<"YUU", "SHOKU", "GO">>
ASA_MAE == <<"ASA", "SHOKU", "MAE">>
HIRU_MAE == <<"HIRU", "SHOKU", "MAE">>
YUU_MAE == <<"YUU", "SHOKU", "MAE">>
SHUUSHIN_MAE == <<"SHUU", "SHIN", "MAE">>
KISHOUJI == <<"KI", "SHOU", "JI">>
TONPUKU == <<"TON", "FUKU">>

\* the dict as a set of (key, value) pairs
HIRAGANA_MAP ==
    { <<ASA_GO, <<"a", "sa">> >>, <<HIRU_GO, <<"hi", "ru">> >>,
      <<YUU_GO, <<"yu", "u">> >>,
      <<ASA_MAE, <<"a", "sa", "MAE">> >>, <<HIRU_MAE, <<"hi", "ru", "MAE">> >>,
      <<YUU_MAE, <<"yu", "u", "MAE">> >>,
      <<SHUUSHIN_MAE, <<"ne", "ru", "ma", "e">> >>,
      <<KISHOUJI, <<"o", "ki", "nu", "ke">> >> }

\* HIRAGANA_MAP.get(timing, timing)
HiraganaGet(timing) ==
    IF \E e \in HIRAGANA_MAP : e[1] = timing
    THEN (CHOOSE e \in HIRAGANA_MAP : e[1] = timing)[2]
    ELSE timing

(***************************************************************************)
(* datetime: ordinals, weekday(), month and day, date + timedelta          *)
(***************************************************************************)
MAXORDINAL == 3652059      \* date(9999, 12, 31).toordinal()

DAYS_BEFORE_MONTH == <<0, 31, 59, 90, 120, 151, 181, 212, 243, 273, 304, 334>>

\* date.weekday(): Monday = 0 ... Sunday = 6
Weekday(date) == (date + 6) % 7

\* the (year, month, day) of an ordinal, as datetime computes it
Ord2ymd(ordinal) ==
    LET n0 == ordinal - 1
        n400 == n0 \div 146097
        r400 == n0 % 146097
        n100 == r400 \div 36524
        r100 == r400 % 36524
        n4 == r100 \div 1461
        r4 == r100 % 1461
        n1 == r4 \div 365
        n == r4 % 365
        year == n400 * 400 + 1 + n100 * 100 + n4 * 4 + n1
        leapyear == n1 = 3 /\ (n4 # 24 \/ n100 = 3)
        leap(m) == IF m > 2 /\ leapyear THEN 1 ELSE 0
        month0 == (n + 50) \div 32
        preceding0 == DAYS_BEFORE_MONTH[month0] + leap(month0)
        month == IF preceding0 > n THEN month0 - 1 ELSE month0
        preceding == DAYS_BEFORE_MONTH[month] + leap(month)
    IN  IF n1 = 4 \/ n100 = 4
        THEN [year |-> year - 1, month |-> 12, day |-> 31]
        ELSE [year |-> year, month |-> month, day |-> n - preceding + 1]

Digit(d) == <<"0", "1", "2", "3", "4", "5", "6", "7", "8", "9">>[d + 1]

\* str(n) for 0 <= n <= 99
Str(n) == IF n < 10 THEN <<Digit(n)>> ELSE <<Digit(n \div 10), Digit(n % 10)>>

\* start_date + timedelta(days=day_offset) raises OverflowError past date.max
DateOverflows(start_date, day_offset) == start_date + day_offset > MAXORDINAL

AddDays(start_date, day_offset) == start_date + day_offset

(***************************************************************************)
(* The canvas: finished pages, the operations drawn on the current page    *)
(* and the graphics state that later drawing operations pick up.           *)
(***************************************************************************)
NewCanvas == [pages |-> <<>>, code |-> <<>>, fill |-> "black",
              stroke |-> "black", font |-> 12]

SetFillColor(color) == [cmd |-> "setFillColor", color |-> color]
SetStrokeColor(color) == [cmd |-> "setStrokeColor", color |-> color]
SetFont(size) == [cmd |-> "setFont", size |-> size]
Rect == [cmd |-> "rect"]
Line(el, y) == [cmd |-> "line", el |-> el, y |-> y]
DrawCentredString(el, y, text) ==
    [cmd |-> "drawCentredString", el |-> el, y |-> y, text |-> text]

\* one canvas call: state setters change the graphics state, drawing calls
\* append an operation that carries the state in force
CanvasCall(c, k) ==
    CASE k.cmd = "setFillColor" -> [c EXCEPT !.fill = k.color]
      [] k.cmd = "setStrokeColor" -> [c EXCEPT !.stroke = k.color]
      [] k.cmd = "setFont" -> [c EXCEPT !.font = k.size]
      [] k.cmd = "rect" ->
            [c EXCEPT !.code = Append(@, [op |-> "rect", el |-> "background",
                                          y |-> 0, size |-> 0,
                                          color |-> c.fill, text |-> <<>>])]
      [] k.cmd = "line" ->
            [c EXCEPT !.code = Append(@, [op |-> "line", el |-> k.el,
                                          y |-> k.y, size |-> 0,
                                          color |-> c.stroke, text |-> <<>>])]
      [] k.cmd = "drawCentredString" ->
            [c EXCEPT !.code = Append(@, [op |-> "text", el |-> k.el,
                                          y |-> k.y, size |-> c.font,
                                          color |-> c.fill, text |-> k.text])]

RECURSIVE CanvasCalls(_, _)
CanvasCalls(c, ks) ==
    IF ks = <<>> THEN c ELSE CanvasCalls(CanvasCall(c, Head(ks)), Tail(ks))

\* Canvas.showPage(): the current page is closed and the graphics state of
\* the next page starts from the canvas defaults
ShowPage(c) == [NewCanvas EXCEPT !.pages = Append(c.pages, c.code)]

\* Canvas.save(): a page that has operations on it is closed first
Save(c) == IF c.code # <<>> THEN ShowPage(c) ELSE c

(***************************************************************************)
(* draw_label (medication_label.py 83-166)                                 *)
(***************************************************************************)
\* thresholds that exclude their upper end
TimingFontSize_Shifted(text_len) ==
    IF text_len < 3 THEN 26
    ELSE IF text_len < 5 THEN 20
    ELSE IF text_len < 7 THEN 16
    ELSE 14

\* 147-156: the font size of the timing text
TimingFontSize(text_len) ==
    IF text_len <= 3 THEN 26
    ELSE IF text_len <= 5 THEN 20
    ELSE IF text_len <= 7 THEN 16
    ELSE 14

\* 141-145
DisplayText(timing, use_hiragana) ==
    IF use_hiragana THEN HiraganaGet(timing) ELSE timing

\* 116-121
WeekdayColor(weekday_idx) ==
    IF weekday_idx = 6 THEN "red"
    ELSE IF weekday_idx = 5 THEN "blue"
    ELSE "black"

\* 92-102: the cursor after the facility line and the name line
NameY(facility, show_facility) ==
    (IF show_facility /\ facility # <<>> THEN LABEL_HEIGHT - 4 * mm
     ELSE LABEL_HEIGHT) - 6 * mm

\* 105
LineY(y_cursor, show_date) ==
    IF ~show_date THEN y_cursor - 1 * mm ELSE y_cursor - 2 * mm

\* 129-134
BoxBottom == 150
\* the room of the date block reserved whether or not it is drawn
BoxTop_Reserved(line_y, show_date) == line_y - 24 * mm

BoxTop(line_y, show_date) == IF show_date THEN line_y - 24 * mm ELSE line_y

\* 110-126: the calls of the date block
DateBlock(date, line_y) ==
    LET ymd == Ord2ymd(date)
        date_str == Str(ymd.month) \o <<"/">> \o Str(ymd.day)
        weekday_idx == Weekday(date)
        weekday_str == <<"(", WEEKDAYS[weekday_idx + 1], ")">>
    IN  << SetFillColor(WeekdayColor(weekday_idx)),
           SetFont(23),
           DrawCentredString("date", line_y - 11 * mm, date_str),
           SetFont(13),
           DrawCentredString("weekday", line_y - 19 * mm, weekday_str) >>

\* the weekday colour left in force for the timing text
TimingFill_Omitted == << >>

\* 139: the fill colour is set back to black before the timing text
TimingFill == <<SetFillColor("black")>>

\* the sequence of canvas calls draw_label makes, in program order; the
\* underline is recorded at the y of the text it belongs to (the code draws
\* it 10 points, not millimetres, below)
DrawLabelCalls(facility, name, date, timing, use_hiragana, show_date, show_facility) ==
    LET has_facility == show_facility /\ facility # <<>>
        y_name == NameY(facility, show_facility)
        line_y == LineY(y_name, show_date)
        box_bottom == BoxBottom
        box_top == BoxTop(line_y, show_date)
        box_height == box_top - box_bottom
        box_center_y == box_bottom + box_height \div 2
        display_text == DisplayText(timing, use_hiragana)
        name_font == IF Len(name) <= 6 THEN 13 ELSE 11
    IN  << SetFillColor("white"), Rect, SetFillColor("black") >>
        \o (IF has_facility
            THEN << SetFont(8),
                    DrawCentredString("facility", LABEL_HEIGHT - 4 * mm,
                                      facility) >>
            ELSE << >>)
        \o << SetFont(name_font),
              DrawCentredString("name", y_name, name \o <<" ", "SAMA">>),
              SetStrokeColor("black"),
              Line("separator", line_y) >>
        \o (IF show_date THEN DateBlock(date, line_y) ELSE << >>)
        \o TimingFill
        \o << SetFont(TimingFontSize(Len(display_text))),
              DrawCentredString("timing", box_center_y, display_text),
              SetStrokeColor("black"),
              Line("underline", box_center_y) >>

draw_label(c, facility, name, date, timing, use_hiragana, show_date, show_facility) ==
    CanvasCalls(c, DrawLabelCalls(facility, name, date, timing, use_hiragana,
                                  show_date, show_facility))

(***************************************************************************)
(* State                                                                   *)
(***************************************************************************)
VARIABLES
    \* the form of MedicationLabelApp
    name_entry, facility_entry, timing_vars, custom_entry, days_var,
    sort_var, hiragana_var, show_date_var, show_facility_var, selected_date,
    last_msg,        \* what the last handler showed: a message box, the browser, "none"
    \* one run of generate_pdf
    pc,              \* "idle", "open", "outer", "inner", "save", "done", "raised"
    args,            \* the arguments of the call
    c,               \* the canvas
    first_page, day_offset, ti, current_date,
    doc,             \* "none", "open" (temp file and canvas made), "saved"
    calls,           \* the showPage / draw_label / save calls made on c, in order
    run, last,       \* number of the run in SpecPdf; pages and renders of the run before
    \* CalendarPopup
    popup,           \* the window: open, current_year, current_month, the grid
    today,           \* the date datetime.now() gives
    \* patient records
    patients,        \* self.patients: the items of the list, each a dict
    data_file,       \* the content of DATA_FILE
    backup_file,     \* the content of the file export_json writes
    exported,        \* the list that was held when backup_file was written
    imported         \* which file import_json read last: "none", "backup", "foreign"

formVars == <<name_entry, facility_entry, timing_vars, custom_entry, days_var,
              sort_var, hiragana_var, show_date_var, show_facility_var,
              selected_date>>
runVars == <<pc, args, c, first_page, day_offset, ti, current_date, doc, calls>>
calVars == <<popup, today>>
patVars == <<patients, data_file, backup_file, exported, imported>>
vars == <<formVars, last_msg, runVars, run, last, calVars, patVars>>

\* a file that does not exist
NoFile == <<[t |-> "absent", v |-> <<>>]>>

\* 326: no DATA_FILE, so load_patients() gives the empty list
PatIdle ==
    /\ patients = <<>>
    /\ data_file = NoFile
    /\ backup_file = NoFile
    /\ exported = <<>>
    /\ imported = "none"

\* no CalendarPopup window
NoPopup == [open |-> FALSE, year |-> 0, month |-> 0, header |-> <<>>, cells |-> <<>>]

\* 328: the clock at construction, no popup yet
CalIdle(now) ==
    /\ popup = NoPopup
    /\ today = now

\* 442-445: the checkboxes in dict order, with their defaults
TIMING_BOXES == <<ASA_MAE, HIRU_MAE, YUU_MAE, SHUUSHIN_MAE,
                  ASA_GO, HIRU_GO, YUU_GO, KISHOUJI>>
TIMING_DEFAULTS == <<FALSE, FALSE, FALSE, FALSE, TRUE, TRUE, TRUE, FALSE>>

NoArgs == [facility |-> <<>>, name |-> <<>>, start_date |-> 0, days |-> 0,
           timings |-> <<>>, sort_by_date |-> FALSE, use_hiragana |-> FALSE,
           show_date |-> TRUE, show_facility |-> TRUE]
NoLast == [pages |-> <<>>, renders |-> <<>>]

\* MedicationLabelApp.__init__ and create_widgets: the form after construction
FormInit(now) ==
    /\ name_entry = <<>>
    /\ facility_entry = <<>>
    /\ timing_vars = TIMING_DEFAULTS
    /\ custom_entry = <<>>
    /\ days_var = <<"7">>
    /\ sort_var = "timing"
    /\ hiragana_var = "kanji"
    /\ show_date_var = TRUE
    /\ show_facility_var = TRUE
    /\ selected_date = now
    /\ last_msg = "none"

RunIdle ==
    /\ pc = "idle"
    /\ args = NoArgs
    /\ c = NewCanvas
    /\ first_page = TRUE
    /\ day_offset = 0
    /\ ti = 1
    /\ current_date = 0
    /\ doc = "none"
    /\ calls = <<>>

(***************************************************************************)
(* generate_pdf (medication_label.py 168-194)                              *)
(***************************************************************************)
ShowPageCall == [fn |-> "showPage", date |-> 0, timing |-> <<>>]
DrawLabelCall(date, timing) == [fn |-> "draw_label", date |-> date, timing |-> timing]
SaveCall == [fn |-> "save", date |-> 0, timing |-> <<>>]

\* a loop that runs one day too many
InRange_Inclusive(offset, days) == offset <= days

\* range(days): is day_offset one of its values
InRange(offset, days) == offset < days

\* 178: current_date in the group-by-day loop
CurrentDateByDate(start_date, offset) == AddDays(start_date, offset)

\* a date that is one day late
CurrentDateByTiming_Next(start_date, offset) == AddDays(start_date, offset + 1)

\* 187: current_date in the group-by-timing loop
CurrentDateByTiming(start_date, offset) == AddDays(start_date, offset)

\* the timings walked from the last to the first
InnerTiming_Reversed(timings, i) == timings[Len(timings) - i + 1]

\* 179: for timing in timings (inner loop), the timing of iteration i
InnerTiming(timings, i) == timings[i]

OuterTiming_Reversed(timings, i) == timings[Len(timings) - i + 1]

\* 185: for timing in timings (outer loop), the timing of iteration i
OuterTiming(timings, i) == timings[i]

\* a page break before every label, the first included
NeedsShowPage_Always(first) == TRUE

\* 180, 188: if not first_page
NeedsShowPage(first) == ~first

\* 180-183 and 188-191: page break unless first, then the label
RenderPage(date, timing) ==
    /\ c' = draw_label(IF NeedsShowPage(first_page) THEN ShowPage(c) ELSE c,
                       args.facility, args.name, date, timing,
                       args.use_hiragana, args.show_date, args.show_facility)
    /\ first_page' = FALSE
    /\ calls' = calls
                \o (IF NeedsShowPage(first_page) THEN <<ShowPageCall>> ELSE << >>)
                \o <<DrawLabelCall(date, timing)>>

\* 169-174: the temporary file, the canvas, first_page
PdfOpen ==
    /\ pc = "open"
    /\ c' = NewCanvas
    /\ first_page' = TRUE
    /\ doc' = "open"
    /\ day_offset' = 0
    /\ ti' = 1
    /\ pc' = "outer"
    /\ UNCHANGED <<args, current_date, calls, formVars, last_msg, run, last, calVars, patVars>>

\* 177-178: for day_offset in range(days): current_date = ...
OuterByDate ==
    /\ pc = "outer"
    /\ args.sort_by_date
    /\ IF InRange(day_offset, args.days)
       THEN IF DateOverflows(args.start_date, day_offset)
            THEN /\ pc' = "raised"
                 /\ UNCHANGED <<current_date, ti>>
            ELSE /\ current_date' = CurrentDateByDate(args.start_date, day_offset)
                 /\ ti' = 1
                 /\ pc' = "inner"
       ELSE /\ pc' = "save"
            /\ UNCHANGED <<current_date, ti>>
    /\ UNCHANGED <<args, c, first_page, day_offset, doc, calls, formVars,
                   last_msg, run, last, calVars, patVars>>

\* 179-183: for timing in timings: ... draw_label
InnerByDate ==
    /\ pc = "inner"
    /\ args.sort_by_date
    /\ IF ti <= Len(args.timings)
       THEN /\ RenderPage(current_date, InnerTiming(args.timings, ti))
            /\ ti' = ti + 1
            /\ UNCHANGED <<pc, day_offset>>
       ELSE /\ day_offset' = day_offset + 1
            /\ pc' = "outer"
            /\ UNCHANGED <<c, first_page, calls, ti>>
    /\ UNCHANGED <<args, current_date, doc, formVars, last_msg, run, last, calVars, patVars>>

\* 185: for timing in timings
OuterByTiming ==
    /\ pc = "outer"
    /\ ~args.sort_by_date
    /\ IF ti <= Len(args.timings)
       THEN /\ day_offset' = 0
            /\ pc' = "inner"
       ELSE /\ pc' = "save"
            /\ UNCHANGED day_offset
    /\ UNCHANGED <<args, c, first_page, ti, current_date, doc, calls, formVars,
                   last_msg, run, last, calVars, patVars>>

\* 186-191: for day_offset in range(days): current_date = ... draw_label
InnerByTiming ==
    /\ pc = "inner"
    /\ ~args.sort_by_date
    /\ IF InRange(day_offset, args.days)
       THEN IF DateOverflows(args.start_date, day_offset)
            THEN /\ pc' = "raised"
                 /\ UNCHANGED <<c, first_page, calls, current_date, day_offset, ti>>
            ELSE /\ current_date' = CurrentDateByTiming(args.start_date, day_offset)
                 /\ RenderPage(current_date', OuterTiming(args.timings, ti))
                 /\ day_offset' = day_offset + 1
                 /\ UNCHANGED <<pc, ti>>
       ELSE /\ ti' = ti + 1
            /\ pc' = "outer"
            /\ UNCHANGED <<c, first_page, calls, current_date, day_offset>>
    /\ UNCHANGED <<args, doc, formVars, last_msg, run, last, calVars, patVars>>

\* 193-194: c.save(); return temp_path
PdfSave ==
    /\ pc = "save"
    /\ c' = Save(c)
    /\ doc' = "saved"
    /\ calls' = Append(calls, SaveCall)
    /\ pc' = "done"
    /\ UNCHANGED <<args, first_page, day_offset, ti, current_date, formVars,
                   last_msg, run, last, calVars, patVars>>

\* the draw_label calls of the log
RECURSIVE Renders(_)
Renders(log) ==
    IF log = <<>> THEN <<>>
    ELSE IF Head(log).fn = "draw_label"
         THEN <<[date |-> Head(log).date, timing |-> Head(log).timing]>>
              \o Renders(Tail(log))
         ELSE Renders(Tail(log))

\* 168: generate_pdf called once more with the same arguments in the other
\* sort mode, after a run that finished
PdfCallOtherMode ==
    /\ pc = "done"
    /\ run = 1
    /\ run' = 2
    /\ last' = [pages |-> c.pages, renders |-> Renders(calls)]
    /\ args' = [args EXCEPT !.sort_by_date = ~@]
    /\ pc' = "open"
    /\ c' = NewCanvas
    /\ first_page' = TRUE
    /\ day_offset' = 0
    /\ ti' = 1
    /\ current_date' = 0
    /\ doc' = "none"
    /\ calls' = <<>>
    /\ UNCHANGED <<formVars, last_msg, calVars, patVars>>

(***************************************************************************)
(* SpecPdf: generate_pdf on every argument list within the bounds          *)
(***************************************************************************)
\* 2024-01-05 (Fri), 2024-01-06 (Sat), 2024-01-07 (Sun), 2024-01-31 (Wed),
\* 9999-12-31 (Fri, date.max)
PdfStartDates == {738890, 738891, 738892, 738916, MAXORDINAL}
PdfTimingTexts == {ASA_GO, SHUUSHIN_MAE, TONPUKU}
PdfNames == {<<"TA", "NAKA">>}
PdfFacilities == {<<"F">>}

SeqsUpTo(S, n) == UNION {[1..k -> S] : k \in 1..n}

InitPdf ==
    /\ FormInit(738886)
    /\ CalIdle(738886)
    /\ PatIdle
    /\ \E f \in PdfFacilities, n \in PdfNames, sd \in PdfStartDates,
          d \in 0..MaxDays, ts \in SeqsUpTo(PdfTimingTexts, MaxTimings),
          sbd \in BOOLEAN, uh \in BOOLEAN, shd \in BOOLEAN, shf \in BOOLEAN :
            args = [facility |-> f, name |-> n, start_date |-> sd, days |-> d,
                    timings |-> ts, sort_by_date |-> sbd, use_hiragana |-> uh,
                    show_date |-> shd, show_facility |-> shf]
    /\ pc = "open"
    /\ c = NewCanvas
    /\ first_page = TRUE
    /\ day_offset = 0
    /\ ti = 1
    /\ current_date = 0
    /\ doc = "none"
    /\ calls = <<>>
    /\ run = 1
    /\ last = NoLast

NextPdf == PdfOpen \/ OuterByDate \/ InnerByDate \/ OuterByTiming
           \/ InnerByTiming \/ PdfSave \/ PdfCallOtherMode

SpecPdf == InitPdf /\ [][NextPdf]_vars

(***************************************************************************)
(* SpecLabel: draw_label on every label within the bounds                  *)
(***************************************************************************)
\* 2024-01-01 (Mon) ... 2024-01-07 (Sun)
LabelDates == 738886..738892
LabelTimingTexts ==
    {e[1] : e \in HIRAGANA_MAP} \cup {TONPUKU}
    \cup {[i \in 1..n |-> "TON"] : n \in 1..MaxTextLen}
LabelNames == {<<"TA", "NAKA">>, <<"TA", "NAKA", "TA", "NAKA", "TA", "NAKA", "TA">>}
LabelFacilities == {<<>>, <<"F">>}

InitLabel ==
    /\ FormInit(738886)
    /\ CalIdle(738886)
    /\ PatIdle
    /\ \E f \in LabelFacilities, n \in LabelNames, d \in LabelDates,
          t \in LabelTimingTexts,
          uh \in BOOLEAN, shd \in BOOLEAN, shf \in BOOLEAN :
            args = [facility |-> f, name |-> n, start_date |-> d, days |-> 1,
                    timings |-> <<t>>, sort_by_date |-> FALSE,
                    use_hiragana |-> uh, show_date |-> shd,
                    show_facility |-> shf]
    /\ pc = "label"
    /\ c = NewCanvas
    /\ first_page = TRUE
    /\ day_offset = 0
    /\ ti = 1
    /\ current_date = 0
    /\ doc = "none"
    /\ calls = <<>>
    /\ run = 1
    /\ last = NoLast

\* one call of draw_label on a new canvas
DrawOneLabel ==
    /\ pc = "label"
    /\ c' = draw_label(c, args.facility, args.name, args.start_date,
                       args.timings[1], args.use_hiragana, args.show_date,
                       args.show_facility)
    /\ calls' = <<DrawLabelCall(args.start_date, args.timings[1])>>
    /\ pc' = "drawn"
    /\ UNCHANGED <<args, first_page, day_offset, ti, current_date, doc,
                   formVars, last_msg, run, last, calVars, patVars>>

NextLabel == DrawOneLabel

SpecLabel == InitLabel /\ [][NextLabel]_vars

(***************************************************************************)
(* str and int as the form handlers use them                               *)
(***************************************************************************)
\* the characters str.strip() removes: the space and the ideographic space
Whitespace == {" ", "ZSP"}

RECURSIVE LStrip(_)
LStrip(s) ==
    IF s # <<>> /\ Head(s) \in Whitespace THEN LStrip(Tail(s)) ELSE s

RECURSIVE RStrip(_)
RStrip(s) ==
    IF s # <<>> /\ s[Len(s)] \in Whitespace
    THEN RStrip(SubSeq(s, 1, Len(s) - 1)) ELSE s

\* str.strip()
Strip(s) == RStrip(LStrip(s))

\* str.replace(old, new) for single characters
Replace(s, old, new) == [i \in DOMAIN s |-> IF s[i] = old THEN new ELSE s[i]]

\* str.split(sep) for a single-character separator
RECURSIVE Split(_, _)
Split(s, sep) ==
    IF \E i \in DOMAIN s : s[i] = sep
    THEN LET i == CHOOSE i \in DOMAIN s :
                      s[i] = sep /\ \A j \in 1..(i - 1) : s[j] # sep
         IN  <<SubSeq(s, 1, i - 1)>> \o Split(SubSeq(s, i + 1, Len(s)), sep)
    ELSE <<s>>

Digits == {"0", "1", "2", "3", "4", "5", "6", "7", "8", "9"}
DigitValue(ch) == CHOOSE d \in 0..9 : Digit(d) = ch

RECURSIVE DigitsValue(_)
DigitsValue(s) ==
    IF s = <<>> THEN 0
    ELSE 10 * DigitsValue(SubSeq(s, 1, Len(s) - 1)) + DigitValue(s[Len(s)])

\* int(text): surrounding whitespace and one sign are accepted, anything
\* but decimal digits after that raises ValueError
ParseInt(text) ==
    LET t == Strip(text)
        signed == t # <<>> /\ Head(t) \in {"-", "+"}
        body == IF signed THEN Tail(t) ELSE t
    IN  IF body # <<>> /\ \A i \in DOMAIN body : body[i] \in Digits
        THEN [ok |-> TRUE,
              value |-> IF signed /\ Head(t) = "-" THEN 0 - DigitsValue(body)
                        ELSE DigitsValue(body)]
        ELSE [ok |-> FALSE, value |-> 0]

(***************************************************************************)
(* MedicationLabelApp: the form and generate_labels (558-585)              *)
(***************************************************************************)
\* 564: [t for t, v in self.timing_vars.items() if v.get()]
CheckedTimings(tv) ==
    LET Sel(i) == tv[i]
        idx == SelectSeq([i \in DOMAIN TIMING_BOXES |-> i], Sel)
    IN  [k \in DOMAIN idx |-> TIMING_BOXES[idx[k]]]

\* the rule that keeps an entry of the split custom text
KeepEntry(s) == Strip(s) # <<>>

\* 567: [s.strip() for s in custom.replace(FW, ",").split(",") if s.strip()]
CustomTimings(custom) ==
    LET parts == Split(Replace(custom, "FWCOMMA", ","), ",")
        kept == SelectSeq(parts, KeepEntry)
    IN  [k \in DOMAIN kept |-> Strip(kept[k])]

\* 564-567
FormTimings(tv, custom_text) ==
    LET custom == Strip(custom_text)
    IN  CheckedTimings(tv)
        \o (IF custom # <<>> THEN CustomTimings(custom) ELSE << >>)

\* what the user types or clicks
FormNames == {<<>>, <<" ">>, <<"TA", "NAKA">>}
ToggleBoxes == {5, 6, 7}
CustomAlphabet == {",", "FWCOMMA", " ", "TON"}
DaysTexts == {<<"7">>, <<"0">>, <<" ", "2">>, <<"-", "1">>, <<"x">>}
FormDates == {738886, MAXORDINAL}

SetName(n) ==
    /\ pc = "idle"
    /\ name_entry' = n
    /\ UNCHANGED <<facility_entry, timing_vars, custom_entry, days_var,
                   sort_var, hiragana_var, show_date_var, show_facility_var,
                   selected_date, last_msg, runVars, run, last, calVars, patVars>>

ToggleTiming(i) ==
    /\ pc = "idle"
    /\ timing_vars' = [timing_vars EXCEPT ![i] = ~@]
    /\ UNCHANGED <<name_entry, facility_entry, custom_entry, days_var,
                   sort_var, hiragana_var, show_date_var, show_facility_var,
                   selected_date, last_msg, runVars, run, last, calVars, patVars>>

\* 457: a key typed into the custom-timing entry
TypeCustom(ch) ==
    /\ pc = "idle"
    /\ Len(custom_entry) < MaxCustomLen
    /\ custom_entry' = Append(custom_entry, ch)
    /\ UNCHANGED <<name_entry, facility_entry, timing_vars, days_var,
                   sort_var, hiragana_var, show_date_var, show_facility_var,
                   selected_date, last_msg, runVars, run, last, calVars, patVars>>

\* 457: backspace in the custom-timing entry
BackspaceCustom ==
    /\ pc = "idle"
    /\ custom_entry # <<>>
    /\ custom_entry' = SubSeq(custom_entry, 1, Len(custom_entry) - 1)
    /\ UNCHANGED <<name_entry, facility_entry, timing_vars, days_var,
                   sort_var, hiragana_var, show_date_var, show_facility_var,
                   selected_date, last_msg, runVars, run, last, calVars, patVars>>

SetDays(t) ==
    /\ pc = "idle"
    /\ days_var' = t
    /\ UNCHANGED <<name_entry, facility_entry, timing_vars, custom_entry,
                   sort_var, hiragana_var, show_date_var, show_facility_var,
                   selected_date, last_msg, runVars, run, last, calVars, patVars>>

SetSort(v) ==
    /\ pc = "idle"
    /\ sort_var' = v
    /\ UNCHANGED <<name_entry, facility_entry, timing_vars, custom_entry,
                   days_var, hiragana_var, show_date_var, show_facility_var,
                   selected_date, last_msg, runVars, run, last, calVars, patVars>>

\* 476-478
on_date_selected(date) ==
    /\ pc = "idle"
    /\ selected_date' = date
    /\ UNCHANGED <<name_entry, facility_entry, timing_vars, custom_entry,
                   days_var, sort_var, hiragana_var, show_date_var,
                   show_facility_var, last_msg, runVars, run, last, calVars, patVars>>

\* 558-584: validation, then the call of generate_pdf
generate_labels ==
    /\ pc = "idle"
    /\ LET name == Strip(name_entry)
           timings == FormTimings(timing_vars, custom_entry)
           days == ParseInt(days_var)
       IN  IF name = <<>>
           THEN /\ last_msg' = "warn_name"
                /\ UNCHANGED <<pc, args>>
           ELSE IF timings = <<>>
           THEN /\ last_msg' = "warn_timings"
                /\ UNCHANGED <<pc, args>>
           ELSE IF ~days.ok
           THEN /\ last_msg' = "ValueError"
                /\ UNCHANGED <<pc, args>>
           ELSE /\ last_msg' = "none"
                /\ args' = [facility |-> Strip(facility_entry),
                            name |-> name,
                            start_date |-> selected_date,
                            days |-> days.value,
                            timings |-> timings,
                            sort_by_date |-> (sort_var = "date"),
                            use_hiragana |-> (hiragana_var = "hiragana"),
                            show_date |-> show_date_var,
                            show_facility |-> show_facility_var]
                /\ pc' = "open"
    /\ UNCHANGED <<formVars, c, first_page, day_offset, ti, current_date, doc,
                   calls, run, last, calVars, patVars>>

\* 585: generate_pdf has returned; the file is handed to the browser and
\* the handler returns
OpenInBrowser ==
    /\ pc = "done"
    /\ pc' = "idle"
    /\ last_msg' = "browser"
    /\ args' = NoArgs
    /\ c' = NewCanvas
    /\ first_page' = TRUE
    /\ day_offset' = 0
    /\ ti' = 1
    /\ current_date' = 0
    /\ doc' = "none"
    /\ calls' = <<>>
    /\ UNCHANGED <<formVars, run, last, calVars, patVars>>

\* the exception leaves generate_pdf and generate_labels; Tk reports it and
\* the event loop goes on
CallbackException ==
    /\ pc = "raised"
    /\ pc' = "idle"
    /\ last_msg' = "OverflowError"
    /\ args' = NoArgs
    /\ c' = NewCanvas
    /\ first_page' = TRUE
    /\ day_offset' = 0
    /\ ti' = 1
    /\ current_date' = 0
    /\ doc' = "none"
    /\ calls' = <<>>
    /\ UNCHANGED <<formVars, run, last, calVars, patVars>>

Init ==
    /\ FormInit(738886)
    /\ CalIdle(738886)
    /\ PatIdle
    /\ RunIdle
    /\ run = 1
    /\ last = NoLast

Next ==
    \/ \E n \in FormNames : SetName(n)
    \/ \E i \in ToggleBoxes : ToggleTiming(i)
    \/ \E ch \in CustomAlphabet : TypeCustom(ch)
    \/ BackspaceCustom
    \/ \E t \in DaysTexts : SetDays(t)
    \/ \E v \in {"timing", "date"} : SetSort(v)
    \/ \E d \in FormDates : on_date_selected(d)
    \/ generate_labels
    \/ PdfOpen \/ OuterByDate \/ InnerByDate \/ OuterByTiming
    \/ InnerByTiming \/ PdfSave
    \/ OpenInBrowser
    \/ CallbackException

Spec == Init /\ [][Next]_vars

(***************************************************************************)
(* CalendarPopup (medication_label.py 199-305)                             *)
(***************************************************************************)
MaxYearSteps == 1     \* how many years away from today's the popup is taken

DAYS_IN_MONTH == <<31, 28, 31, 30, 31, 30, 31, 31, 30, 31, 30, 31>>

IsLeap(year) == year % 4 = 0 /\ (year % 100 # 0 \/ year % 400 = 0)

DaysInMonth(year, month) ==
    IF month = 2 /\ IsLeap(year) THEN 29 ELSE DAYS_IN_MONTH[month]

\* datetime(year, month, day) as an ordinal
Ymd2ord(year, month, day) ==
    LET y == year - 1
    IN  y * 365 + y \div 4 - y \div 100 + y \div 400
        + DAYS_BEFORE_MONTH[month]
        + (IF month > 2 /\ IsLeap(year) THEN 1 ELSE 0)
        + day

\* calendar.Calendar(firstweekday=0).monthdayscalendar(year, month): full
\* weeks from Monday to Sunday, 0 for the days outside the month
MonthDaysCalendar(year, month) ==
    LET first == Weekday(Ymd2ord(year, month, 1))
        ndays == DaysInMonth(year, month)
        nweeks == (first + ndays + 6) \div 7
    IN  [row \in 1..nweeks |->
            [col \in 1..7 |->
                LET day == (row - 1) * 7 + (col - 1) - first + 1
                IN  IF day >= 1 /\ day <= ndays THEN day ELSE 0]]

\* 243-244: the colour of weekday header i (0-based)
HeaderFg(i) == IF i = 6 THEN "red" ELSE IF i = 5 THEN "blue" ELSE "black"

\* the Sunday colours on the first column
DayButtonFg_SundayFirst(col, is_today) ==
    IF is_today THEN "white"
    ELSE IF col = 0 THEN "red" ELSE IF col = 6 THEN "blue" ELSE "black"

\* 269: the text colour of a day button in column col (0-based)
DayButtonFg(col, is_today) ==
    IF is_today THEN "white"
    ELSE IF col = 6 THEN "red" ELSE IF col = 5 THEN "blue" ELSE "black"

\* 268: the background of a day button
DayButtonBg(is_today) == IF is_today THEN "#2563eb" ELSE "white"

\* 258-273: the widgets of the grid, row by row; day 0 is an empty label
CalendarCells(year, month, now) ==
    LET weeks == MonthDaysCalendar(year, month)
    IN  [row \in DOMAIN weeks |->
            [col \in 1..7 |->
                LET day == weeks[row][col]
                    is_today == day # 0 /\ Ymd2ord(year, month, day) = now
                IN  IF day = 0
                    THEN [day |-> 0, fg |-> "none", bg |-> "none"]
                    ELSE [day |-> day, fg |-> DayButtonFg(col - 1, is_today),
                          bg |-> DayButtonBg(is_today)]]]

\* 243-246 and 248-273: the popup showing (year, month)
PopupShowing(year, month, now) ==
    [open |-> TRUE, year |-> year, month |-> month,
     header |-> [i \in 1..7 |-> HeaderFg(i - 1)],
     cells |-> CalendarCells(year, month, now)]

\* the years the navigation is followed to
YearInBounds(year) ==
    /\ year >= Ord2ymd(today).year - MaxYearSteps
    /\ year <= Ord2ymd(today).year + MaxYearSteps

\* 473-474, 200-217: the popup opens on the month of the selected date
show_calendar ==
    /\ pc = "idle"
    /\ ~popup.open
    /\ popup' = PopupShowing(Ord2ymd(selected_date).year,
                             Ord2ymd(selected_date).month, today)
    /\ UNCHANGED <<formVars, last_msg, runVars, run, last, today, patVars>>

\* 275-277
prev_year ==
    /\ popup.open
    /\ YearInBounds(popup.year - 1)
    /\ popup' = PopupShowing(popup.year - 1, popup.month, today)
    /\ UNCHANGED <<formVars, last_msg, runVars, run, last, today, patVars>>

\* 279-281
next_year ==
    /\ popup.open
    /\ YearInBounds(popup.year + 1)
    /\ popup' = PopupShowing(popup.year + 1, popup.month, today)
    /\ UNCHANGED <<formVars, last_msg, runVars, run, last, today, patVars>>

\* 283-289
prev_month ==
    /\ popup.open
    /\ IF popup.month = 1
       THEN /\ YearInBounds(popup.year - 1)
            /\ popup' = PopupShowing(popup.year - 1, 12, today)
       ELSE popup' = PopupShowing(popup.year, popup.month - 1, today)
    /\ UNCHANGED <<formVars, last_msg, runVars, run, last, today, patVars>>

\* 291-297
next_month ==
    /\ popup.open
    /\ IF popup.month = 12
       THEN /\ YearInBounds(popup.year + 1)
            /\ popup' = PopupShowing(popup.year + 1, 1, today)
       ELSE popup' = PopupShowing(popup.year, popup.month + 1, today)
    /\ UNCHANGED <<formVars, last_msg, runVars, run, last, today, patVars>>

\* 299-301 with the callback on_date_selected (476-478)
quick_select(days) ==
    /\ popup.open
    /\ selected_date' = AddDays(today, days)
    /\ popup' = NoPopup
    /\ UNCHANGED <<name_entry, facility_entry, timing_vars, custom_entry,
                   days_var, sort_var, hiragana_var, show_date_var,
                   show_facility_var, last_msg, runVars, run, last, today, patVars>>

\* 303-305 with the callback on_date_selected (476-478)
select_date(day) ==
    /\ popup.open
    /\ \E row \in DOMAIN popup.cells, col \in 1..7 :
          popup.cells[row][col].day = day
    /\ selected_date' = Ymd2ord(popup.year, popup.month, day)
    /\ popup' = NoPopup
    /\ UNCHANGED <<name_entry, facility_entry, timing_vars, custom_entry,
                   days_var, sort_var, hiragana_var, show_date_var,
                   show_facility_var, last_msg, runVars, run, last, today, patVars>>

\* 2024-01-06 (Sat), 2024-01-07 (Sun), 2024-02-29 (Thu)
CalendarTodays == {738891, 738892, 738945}

\* the day buttons that are clicked
CalendarClickDays == {1, 29}

InitCalendar ==
    /\ \E now \in CalendarTodays : FormInit(now) /\ CalIdle(now)
    /\ PatIdle
    /\ RunIdle
    /\ run = 1
    /\ last = NoLast

NextCalendar ==
    \/ show_calendar
    \/ prev_year \/ next_year \/ prev_month \/ next_month
    \/ \E days \in {0, 1, 3, 7, 14} : quick_select(days)
    \/ \E day \in CalendarClickDays : select_date(day)

SpecCalendar == InitCalendar /\ [][NextCalendar]_vars

(***************************************************************************)
(* Patient records: Python values, JSON text, the handlers (67-78,         *)
(* 480-488, 513-556, 587-612)                                              *)
(***************************************************************************)
\* Python values: str, list and dict (its items in insertion order)
PyStr(text) == [py |-> "str", v |-> text]
PyList(items) == [py |-> "list", v |-> items]
PyDict(pairs) == [py |-> "dict", v |-> pairs]

\* JSON text as a sequence of tokens: punctuation and string literals
P(ch) == [t |-> "p", v |-> <<ch>>]
S(text) == [t |-> "s", v |-> text]

RECURSIVE Dump(_)
RECURSIVE DumpItems(_)
RECURSIVE DumpMembers(_)

DumpItems(items) ==
    IF items = <<>> THEN <<>>
    ELSE Dump(Head(items))
         \o (IF Len(items) > 1 THEN <<P(",")>> ELSE <<>>)
         \o DumpItems(Tail(items))

DumpMembers(pairs) ==
    IF pairs = <<>> THEN <<>>
    ELSE <<S(Head(pairs)[1]), P(":")>> \o Dump(Head(pairs)[2])
         \o (IF Len(pairs) > 1 THEN <<P(",")>> ELSE <<>>)
         \o DumpMembers(Tail(pairs))

\* json.dump(value, f, ensure_ascii=False, indent=2)
Dump(value) ==
    CASE value.py = "str" -> <<S(value.v)>>
      [] value.py = "list" -> <<P("[")>> \o DumpItems(value.v) \o <<P("]")>>
      [] value.py = "dict" -> <<P("{")>> \o DumpMembers(value.v) \o <<P("}")>>

ParseFail == [ok |-> FALSE, val |-> PyStr(<<>>), rest |-> <<>>]

RECURSIVE ParseValue(_)
RECURSIVE ParseItems(_, _)
RECURSIVE ParseMembers(_, _)

\* the items of a list, after "[" or after a comma
ParseItems(ts, acc) ==
    IF ts = <<>> THEN ParseFail
    ELSE IF Head(ts) = P("]") /\ acc = <<>>
    THEN [ok |-> TRUE, val |-> PyList(<<>>), rest |-> Tail(ts)]
    ELSE LET r == ParseValue(ts) IN
         IF ~r.ok \/ r.rest = <<>> THEN ParseFail
         ELSE IF Head(r.rest) = P(",")
         THEN ParseItems(Tail(r.rest), Append(acc, r.val))
         ELSE IF Head(r.rest) = P("]")
         THEN [ok |-> TRUE, val |-> PyList(Append(acc, r.val)),
               rest |-> Tail(r.rest)]
         ELSE ParseFail

\* the members of an object, after "{" or after a comma
ParseMembers(ts, acc) ==
    IF ts = <<>> THEN ParseFail
    ELSE IF Head(ts) = P("}") /\ acc = <<>>
    THEN [ok |-> TRUE, val |-> PyDict(<<>>), rest |-> Tail(ts)]
    ELSE IF Len(ts) < 3 \/ Head(ts).t # "s" \/ ts[2] # P(":") THEN ParseFail
    ELSE LET r == ParseValue(SubSeq(ts, 3, Len(ts))) IN
         IF ~r.ok \/ r.rest = <<>> THEN ParseFail
         ELSE IF Head(r.rest) = P(",")
         THEN ParseMembers(Tail(r.rest), Append(acc, <<Head(ts).v, r.val>>))
         ELSE IF Head(r.rest) = P("}")
         THEN [ok |-> TRUE,
               val |-> PyDict(Append(acc, <<Head(ts).v, r.val>>)),
               rest |-> Tail(r.rest)]
         ELSE ParseFail

ParseValue(ts) ==
    IF ts = <<>> THEN ParseFail
    ELSE IF Head(ts).t = "s"
    THEN [ok |-> TRUE, val |-> PyStr(Head(ts).v), rest |-> Tail(ts)]
    ELSE IF Head(ts) = P("[") THEN ParseItems(Tail(ts), <<>>)
    ELSE IF Head(ts) = P("{") THEN ParseMembers(Tail(ts), <<>>)
    ELSE ParseFail

\* json.load(f): the value of the whole text, or a JSONDecodeError
Load(ts) ==
    LET r == ParseValue(ts)
    IN  IF r.ok /\ r.rest = <<>> THEN r ELSE ParseFail

\* dict.get(key, default)
Get(d, key, default) ==
    IF \E i \in DOMAIN d.v : d.v[i][1] = key
    THEN d.v[CHOOSE i \in DOMAIN d.v :
                 d.v[i][1] = key /\ \A j \in 1..(i - 1) : d.v[j][1] # key][2]
    ELSE default

\* the code point of a character
CodePoint(ch) ==
    CASE ch = " " -> 32
      [] ch = "x" -> 120
      [] ch = "ka" -> 12363
      [] ch = "ta" -> 12383
      [] ch = "na" -> 12394
      [] ch = "NAKA" -> 20013
      [] ch = "TA" -> 30000
      [] OTHER -> 0

\* str < str
TextLess(a, b) ==
    \E i \in 1..(Len(b)) :
        /\ \A j \in 1..(i - 1) : j <= Len(a) /\ a[j] = b[j]
        /\ (i > Len(a) \/ CodePoint(a[i]) < CodePoint(b[i]))

\* 482: p.get("nameReading", "") or p.get("name", "")
PatientKey(p) ==
    LET reading == Get(p, <<"nameReading">>, PyStr(<<>>))
    IN  IF reading.v # <<>> THEN reading.v
        ELSE Get(p, <<"name">>, PyStr(<<>>)).v

\* an insertion that puts x before the items with an equal key
InsertBeforeEqual(sorted, x) ==
    LET k == Cardinality({i \in DOMAIN sorted :
                              TextLess(PatientKey(sorted[i]), PatientKey(x))})
    IN  SubSeq(sorted, 1, k) \o <<x>> \o SubSeq(sorted, k + 1, Len(sorted))

\* x placed into a list in key order, after the items that do not come
\* after it (the sort is stable)
InsertAfterEqual(sorted, x) ==
    LET k == Cardinality({i \in DOMAIN sorted :
                              ~TextLess(PatientKey(x), PatientKey(sorted[i]))})
    IN  SubSeq(sorted, 1, k) \o <<x>> \o SubSeq(sorted, k + 1, Len(sorted))

\* 482: list.sort(key=...)
RECURSIVE SortPatients(_)
SortPatients(list) ==
    IF list = <<>> THEN <<>>
    ELSE InsertAfterEqual(SortPatients(SubSeq(list, 1, Len(list) - 1)),
                          list[Len(list)])

\* 67-74: load_patients()
load_patients(file) ==
    IF file = NoFile THEN <<>>
    ELSE IF Load(file).ok THEN Load(file).val.v ELSE <<>>

\* 76-78: save_patients(patients)
save_patients(list) == Dump(PyList(list))

\* 480-482: update_patient_list() reads DATA_FILE again and sorts
update_patient_list(file) == SortPatients(load_patients(file))

\* 519-526: the record of the form
PatientRecord(name, reading, facility, timings, custom, comment) ==
    PyDict(<< <<<<"name">>, PyStr(name)>>,
              <<<<"nameReading">>, PyStr(reading)>>,
              <<<<"facility">>, PyStr(facility)>>,
              <<<<"timings">>, PyList([i \in DOMAIN timings |-> PyStr(timings[i])])>>,
              <<<<"customTiming">>, PyStr(custom)>>,
              <<<<"comment">>, PyStr(comment)>> >>)

\* what is in the entries when the save button is clicked
PatientNames == {<<>>, <<"TA", "NAKA">>, <<"NAKA", "TA">>}
PatientForms ==
    { [reading |-> <<>>, timings |-> <<>>],
      [reading |-> <<"ta", "na", "ka">>, timings |-> <<ASA_GO>>] }

\* 513-537: name_text, reading and timings are what the name entry, the
\* reading entry and the timing boxes hold at the click; the comment is empty
save_patient(name_text, reading, timings) ==
    /\ pc = "idle"
    /\ LET name == Strip(name_text)
           record == PatientRecord(name, Strip(reading),
                                   Strip(facility_entry), timings,
                                   Strip(custom_entry), <<>>)
           same == {i \in DOMAIN patients :
                        Get(patients[i], <<"name">>, PyStr(<<>>)).v = name}
       IN  IF name = <<>>
           THEN /\ last_msg' = "warn_name"
                /\ UNCHANGED <<patients, data_file>>
           ELSE /\ LET list == IF same # {}
                               THEN [patients EXCEPT
                                        ![CHOOSE i \in same :
                                              \A j \in same : i <= j] = record]
                               ELSE Append(patients, record)
                   IN  /\ data_file' = save_patients(list)
                       /\ patients' = update_patient_list(data_file')
                /\ last_msg' = IF same # {} THEN "updated" ELSE "saved"
    /\ UNCHANGED <<formVars, runVars, run, last, calVars, backup_file,
                   exported, imported>>

\* 539-556: idx is the selected row of the combobox, yes the answer given
delete_patient(idx, yes) ==
    /\ pc = "idle"
    /\ IF idx <= 0
       THEN /\ last_msg' = "warn_select"
            /\ UNCHANGED <<patients, data_file, formVars>>
       ELSE /\ idx - 1 < Len(patients)
            /\ last_msg' = "confirm_delete"
            /\ IF yes
               THEN /\ data_file' = save_patients(
                            SubSeq(patients, 1, idx - 1)
                            \o SubSeq(patients, idx + 1, Len(patients)))
                    /\ patients' = update_patient_list(data_file')
                    /\ name_entry' = <<>>
                    /\ facility_entry' = <<>>
                    /\ custom_entry' = <<>>
                    /\ timing_vars' = [i \in DOMAIN timing_vars |-> FALSE]
                    /\ UNCHANGED <<days_var, sort_var, hiragana_var,
                                   show_date_var, show_facility_var,
                                   selected_date>>
               ELSE UNCHANGED <<patients, data_file, formVars>>
    /\ UNCHANGED <<runVars, run, last, calVars, backup_file, exported,
                   imported>>

\* 587-596: chosen is whether a path was chosen in the dialog
export_json(chosen) ==
    /\ pc = "idle"
    /\ IF chosen
       THEN /\ backup_file' = Dump(PyList(patients))
            /\ exported' = patients
            /\ last_msg' = "exported"
       ELSE /\ last_msg' = "none"
            /\ UNCHANGED <<backup_file, exported>>
    /\ UNCHANGED <<formVars, runVars, run, last, calVars, patients, data_file,
                   imported>>

\* 598-612: chosen is "backup" for the file export_json wrote and "foreign"
\* for another one, file its content, yes the answer given
import_json(chosen, file, yes) ==
    /\ pc = "idle"
    /\ file # NoFile
    /\ imported' = chosen
    /\ LET data == Load(file) IN
       IF ~data.ok \/ data.val.py # "list"
       THEN /\ last_msg' = "error"
            /\ UNCHANGED <<patients, data_file>>
       ELSE IF yes
       THEN /\ data_file' = save_patients(data.val.v)
            /\ patients' = update_patient_list(data_file')
            /\ last_msg' = "imported"
       ELSE /\ last_msg' = "confirm_import"
            /\ UNCHANGED <<patients, data_file>>
    /\ UNCHANGED <<formVars, runVars, run, last, calVars, backup_file,
                   exported>>

\* files made elsewhere: a list that is not in key order, an object, and a
\* text that is not JSON
ForeignFiles ==
    { Dump(PyList(<< PatientRecord(<<"TA", "NAKA">>, <<>>, <<>>, <<>>, <<>>, <<>>),
                     PatientRecord(<<"NAKA", "TA">>, <<>>, <<>>, <<ASA_GO>>, <<>>, <<>>) >>)),
      Dump(PyDict(<< >>)),
      <<P("[")>> }

InitPatients ==
    /\ FormInit(738886)
    /\ CalIdle(738886)
    /\ RunIdle
    /\ run = 1
    /\ last = NoLast
    /\ \E file \in {NoFile} \cup ForeignFiles :
          /\ data_file = file
          /\ patients = update_patient_list(file)
    /\ backup_file = NoFile
    /\ exported = <<>>
    /\ imported = "none"

\* the rows of the combobox: the placeholder and one per patient
PatientRows == 0..Cardinality(PatientNames \ {<<>>})

NextPatients ==
    \/ \E n \in PatientNames, f \in PatientForms :
          save_patient(n, f.reading, f.timings)
    \/ \E idx \in PatientRows, yes \in BOOLEAN : delete_patient(idx, yes)
    \/ \E chosen \in BOOLEAN : export_json(chosen)
    \/ \E yes \in BOOLEAN : import_json("backup", backup_file, yes)
    \/ \E file \in ForeignFiles, yes \in BOOLEAN :
          import_json("foreign", file, yes)

SpecPatients == InitPatients /\ [][NextPatients]_vars

(***************************************************************************)
(* Properties of generate_pdf                                              *)
(***************************************************************************)
Range(s) == {s[i] : i \in DOMAIN s}
SeqToBag(s) == [x \in Range(s) |-> Cardinality({i \in DOMAIN s : s[i] = x})]

\* every page drawn so far: the closed ones and the one being drawn
AllPages == c.pages \o (IF c.code # <<>> THEN <<c.code>> ELSE << >>)

\* the text operations of a page that draw element el
TextOps(page, el) ==
    {i \in DOMAIN page : page[i].op = "text" /\ page[i].el = el}

CountCalls(fn) == Cardinality({i \in DOMAIN calls : calls[i].fn = fn})

ValidJob == args.days >= 1 /\ args.timings # <<>>

\* C1: a run with days >= 1 and a non-empty timings sequence that finishes
\* leaves a document of exactly days * len(timings) pages, one per
\* draw_label call, in both sort modes.
C1_PageCount ==
    (pc = "done" /\ ValidJob) =>
        /\ Len(c.pages) = args.days * Len(args.timings)
        /\ CountCalls("draw_label") = args.days * Len(args.timings)
        /\ c.code = <<>>

C1_Witness ==
    /\ pc = "done" /\ run = 2
    /\ args.days = 2 /\ Len(args.timings) = 2
    /\ Len(c.pages) = 4 /\ Len(last.pages) = 4

\* C2: in group-by-timing mode the k-th page (0-based) carries
\* timings[k div days] and start_date + (k mod days), and the run renders
\* every such page.
C2_GroupByTimingOrder ==
    ~args.sort_by_date =>
        LET renders == Renders(calls) IN
        /\ Len(renders) = Len(AllPages)
        /\ \A k \in 0..(Len(renders) - 1) :
              /\ renders[k + 1].timing = args.timings[(k \div args.days) + 1]
              /\ renders[k + 1].date = args.start_date + (k % args.days)
              /\ \E i \in TextOps(AllPages[k + 1], "timing") :
                    AllPages[k + 1][i].text
                        = DisplayText(args.timings[(k \div args.days) + 1],
                                      args.use_hiragana)
        /\ (pc = "done" /\ ValidJob) =>
              Len(renders) = args.days * Len(args.timings)

C2_Witness ==
    /\ pc = "done" /\ ~args.sort_by_date
    /\ args.timings = <<ASA_GO, SHUUSHIN_MAE>> /\ args.days = 2
    /\ args.start_date = 738890
    /\ Renders(calls) = << [date |-> 738890, timing |-> ASA_GO],
                           [date |-> 738891, timing |-> ASA_GO],
                           [date |-> 738890, timing |-> SHUUSHIN_MAE],
                           [date |-> 738891, timing |-> SHUUSHIN_MAE] >>

\* C3: in group-by-day mode the k-th page (0-based) carries
\* start_date + (k div len(timings)) and timings[k mod len(timings)], and
\* the run renders every such page.
C3_GroupByDayOrder ==
    args.sort_by_date =>
        LET renders == Renders(calls)
            n == Len(args.timings)
        IN
        /\ Len(renders) = Len(AllPages)
        /\ \A k \in 0..(Len(renders) - 1) :
              /\ renders[k + 1].date = args.start_date + (k \div n)
              /\ renders[k + 1].timing = args.timings[(k % n) + 1]
              /\ \E i \in TextOps(AllPages[k + 1], "timing") :
                    AllPages[k + 1][i].text
                        = DisplayText(args.timings[(k % n) + 1],
                                      args.use_hiragana)
        /\ (pc = "done" /\ ValidJob) => Len(renders) = args.days * n

C3_Witness ==
    /\ pc = "done" /\ args.sort_by_date
    /\ args.timings = <<ASA_GO, SHUUSHIN_MAE>> /\ args.days = 2
    /\ args.start_date = 738890
    /\ Renders(calls) = << [date |-> 738890, timing |-> ASA_GO],
                           [date |-> 738890, timing |-> SHUUSHIN_MAE],
                           [date |-> 738891, timing |-> ASA_GO],
                           [date |-> 738891, timing |-> SHUUSHIN_MAE] >>

\* C4: the run in one sort mode and the run in the other sort mode on the
\* same arguments produce the same multiset of (date, timing) renders and
\* the same multiset of pages.
C4_SameMultiset ==
    (pc = "done" /\ run = 2) =>
        /\ SeqToBag(Renders(calls)) = SeqToBag(last.renders)
        /\ SeqToBag(c.pages) = SeqToBag(last.pages)

C4_Witness ==
    /\ pc = "done" /\ run = 2
    /\ Len(c.pages) = 4
    /\ c.pages # last.pages
    /\ Renders(calls) # last.renders

\* C5: showPage is called exactly between consecutive draw_label calls:
\* the first call on the canvas is draw_label, showPage and draw_label
\* alternate, the call before save is draw_label, and a run with at least
\* one render makes (renders - 1) showPage calls.
C5_PageBreaksBetweenRenders ==
    LET log == SelectSeq(calls, LAMBDA x : x.fn # "save") IN
    /\ log # <<>> => log[1].fn = "draw_label" /\ log[Len(log)].fn = "draw_label"
    /\ \A i \in 1..(Len(log) - 1) : log[i].fn # log[i + 1].fn
    /\ CountCalls("draw_label") >= 1 =>
          CountCalls("showPage") = CountCalls("draw_label") - 1
    /\ (pc = "done" /\ ValidJob) => CountCalls("draw_label") >= 1

C5_Witness ==
    /\ pc = "done"
    /\ CountCalls("draw_label") = 4
    /\ CountCalls("showPage") = 3
    /\ calls[2].fn = "showPage"

\* C6: on every exit path of generate_pdf, the normal return and the
\* propagation of an exception, the document that was opened is finalized.
C6_ClosedOnEveryExit ==
    pc \in {"done", "raised"} => doc = "saved"

\* C10: on every page the date digits and the weekday label are red on a
\* Sunday, blue on a Saturday and black otherwise, and the facility line,
\* the name line and the timing text are black, whatever was drawn before.
C10_PageColours ==
    \A k \in DOMAIN AllPages :
        LET page == AllPages[k]
            date == Renders(calls)[k].date
            rule == IF (date + 6) % 7 = 6 THEN "red"
                    ELSE IF (date + 6) % 7 = 5 THEN "blue" ELSE "black"
        IN
        /\ \A i \in TextOps(page, "date") \cup TextOps(page, "weekday") :
              page[i].color = rule
        /\ \A i \in TextOps(page, "facility") \cup TextOps(page, "name")
                    \cup TextOps(page, "timing") :
              page[i].color = "black"
        /\ args.show_date =>
              TextOps(page, "date") # {} /\ TextOps(page, "weekday") # {}
        /\ TextOps(page, "name") # {} /\ TextOps(page, "timing") # {}

\* a finished document with a Saturday page, a Sunday page right after it
\* and a facility line on each
C10_Witness ==
    /\ pc = "done" /\ args.show_date /\ args.show_facility
    /\ args.start_date = 738891 /\ args.days = 2 /\ Len(c.pages) = 2
    /\ \E i \in TextOps(c.pages[1], "date") : c.pages[1][i].color = "blue"
    /\ \E i \in TextOps(c.pages[2], "date") : c.pages[2][i].color = "red"
    /\ TextOps(c.pages[2], "facility") # {}

(***************************************************************************)
(* Properties of generate_labels                                           *)
(***************************************************************************)
\* C7: generate_labels calls generate_pdf only with a non-empty patient
\* name, a non-empty timings sequence and a day count >= 1.
C7_PreconditionsEnforced ==
    pc # "idle" =>
        /\ args.name # <<>>
        /\ args.timings # <<>>
        /\ args.days >= 1

\* C8: the timings sequence generate_labels passes to generate_pdf contains
\* no string twice.
C8_TimingsDistinct ==
    pc # "idle" =>
        \A i, j \in DOMAIN args.timings :
            args.timings[i] = args.timings[j] => i = j

(***************************************************************************)
(* Properties of draw_label                                                *)
(***************************************************************************)
\* C9: the timing text drawn is the HIRAGANA_MAP substitute when
\* use_hiragana is true and the exact timing string has an entry, and the
\* timing string otherwise; its font size is 26 for 1-3 characters of that
\* drawn text, 20 for 4-5, 16 for 6-7 and 14 for 8 or more.
C9_TimingFontSize ==
    pc = "drawn" =>
        LET timing == args.timings[1]
            mapped == {e \in HIRAGANA_MAP : e[1] = timing}
            display == IF args.use_hiragana /\ mapped # {}
                       THEN (CHOOSE e \in mapped : TRUE)[2]
                       ELSE timing
            n == Len(display)
            size == CASE n \in 1..3 -> 26
                      [] n \in 4..5 -> 20
                      [] n \in 6..7 -> 16
                      [] n >= 8 -> 14
        IN  /\ Cardinality(TextOps(c.code, "timing")) = 1
            /\ \A i \in TextOps(c.code, "timing") :
                  c.code[i].text = display /\ c.code[i].size = size

\* the 3-character SHUUSHIN_MAE drawn as its 4-character substitute at 20
C9_Witness ==
    /\ pc = "drawn"
    /\ args.timings[1] = SHUUSHIN_MAE /\ args.use_hiragana
    /\ \E i \in TextOps(c.code, "timing") :
          c.code[i].text = <<"ne", "ru", "ma", "e">> /\ c.code[i].size = 20

\* the y of the one operation of a page that draws element el
YOf(page, el) == page[CHOOSE i \in DOMAIN page : page[i].el = el].y

\* C12: without the date block no date digits and no weekday label are
\* drawn, the separator is 1 mm below the cursor left by the name line and
\* the timing box spans from 1.5 mm to the separator; with the date block
\* the separator is 2 mm below the cursor and the box top is 24 mm below the
\* separator.  In all four combinations of show_date and facility line the
\* box top is above the box bottom.
C12_DateBlockGeometry ==
    pc = "drawn" =>
        LET page == c.code
            has_facility == args.show_facility /\ args.facility # <<>>
            cursor == YOf(page, "name")
            lineY == YOf(page, "separator")
            top == IF args.show_date THEN lineY - 2400 ELSE lineY
            bottom == 150
        IN  /\ cursor = (IF has_facility THEN 5200 - 400 ELSE 5200) - 600
            /\ (TextOps(page, "facility") # {}) = has_facility
            /\ (TextOps(page, "date") # {}) = args.show_date
            /\ (TextOps(page, "weekday") # {}) = args.show_date
            /\ lineY = (IF args.show_date THEN cursor - 200 ELSE cursor - 100)
            /\ 2 * YOf(page, "timing") = top + bottom
            /\ top > bottom

\* a label with a facility line and no date block: separator at 41 mm, the
\* timing text centred between 1.5 mm and 41 mm
C12_Witness ==
    /\ pc = "drawn"
    /\ ~args.show_date /\ args.show_facility /\ args.facility # <<>>
    /\ TextOps(c.code, "date") = {}
    /\ YOf(c.code, "separator") = 4100
    /\ YOf(c.code, "timing") = 2125

(***************************************************************************)
(* Properties of CalendarPopup                                             *)
(***************************************************************************)
\* the weekday colour rule: Sunday red, Saturday blue, otherwise black
RuleColour(weekday) ==
    IF weekday = 6 THEN "red" ELSE IF weekday = 5 THEN "blue" ELSE "black"

\* the day buttons of the open popup, as (row, col) positions
DayButtons ==
    {rc \in (DOMAIN popup.cells) \X (1..7) : popup.cells[rc[1]][rc[2]].day # 0}

ButtonDate(rc) == Ymd2ord(popup.year, popup.month, popup.cells[rc[1]][rc[2]].day)

\* C11: in the CalendarPopup grid every weekday header and every day
\* button has the text colour the rule gives for its weekday.
C11_GridFollowsRule ==
    popup.open =>
        /\ \A i \in 1..7 : popup.header[i] = RuleColour(i - 1)
        /\ \A rc \in DayButtons :
              popup.cells[rc[1]][rc[2]].fg = RuleColour((ButtonDate(rc) + 6) % 7)

\* C11 as amended: every weekday header and every day button other than
\* today's has the colour of the rule for its weekday; today's button is
\* white on the highlight background whatever its weekday; the buttons show
\* each day of the month once, in the column of its weekday.
C11_GridFollowsRuleExceptToday ==
    popup.open =>
        /\ \A i \in 1..7 : popup.header[i] = RuleColour(i - 1)
        /\ \A rc \in DayButtons :
              /\ rc[2] - 1 = (ButtonDate(rc) + 6) % 7
              /\ popup.cells[rc[1]][rc[2]].fg
                    = (IF ButtonDate(rc) = today THEN "white"
                       ELSE RuleColour((ButtonDate(rc) + 6) % 7))
              /\ popup.cells[rc[1]][rc[2]].bg
                    = (IF ButtonDate(rc) = today THEN "#2563eb" ELSE "white")
        /\ \A day \in 1..31 :
              Cardinality({rc \in DayButtons : popup.cells[rc[1]][rc[2]].day = day})
                  = (IF Ord2ymd(Ymd2ord(popup.year, popup.month, 1) + day - 1).month
                          = popup.month
                     THEN 1 ELSE 0)

\* the month of a Sunday "today": its button is white, the Sunday a week
\* later is red, the Saturday before is blue
C11_Witness ==
    /\ popup.open
    /\ today = 738892 /\ popup.year = 2024 /\ popup.month = 1
    /\ popup.cells[1][7] = [day |-> 7, fg |-> "white", bg |-> "#2563eb"]
    /\ popup.cells[2][7] = [day |-> 14, fg |-> "red", bg |-> "white"]
    /\ popup.cells[1][6] = [day |-> 6, fg |-> "blue", bg |-> "white"]

(***************************************************************************)
(* Properties of export_json and import_json                               *)
(***************************************************************************)
\* C13: after export_json wrote a file and import_json read that file with
\* the overwrite confirmed, the application holds a list identical to the
\* one that was exported: the same records in the same order, each with the
\* same fields; DATA_FILE holds that list too.
C13_ExportImportRoundTrip ==
    (last_msg = "imported" /\ imported = "backup") =>
        /\ patients = exported
        /\ load_patients(data_file) = exported

\* two records with equal sort keys and a nested timings list, exported,
\* then changed, then brought back by the import
C13_Witness ==
    /\ last_msg = "imported" /\ imported = "backup"
    /\ patients = exported
    /\ Len(patients) = 2
    /\ PatientKey(patients[1]) = PatientKey(patients[2])
    /\ Get(patients[1], <<"name">>, PyStr(<<>>)).v = <<"TA", "NAKA">>
    /\ \E i \in 1..2 : Get(patients[i], <<"timings">>, PyList(<<>>)).v # <<>>

====
